---- MODULE Spec2Model ----
(***************************************************************************)
(* The translation proxy of src/api/translate.py (unrestricted variant)    *)
(* and src/translate.py (restricted variant: SUPPORTED_LANGS allow-list).  *)
(* One Flask handler, translate_text, runs per request; requests are       *)
(* handled concurrently and share the module-level dict CACHE.  A request  *)
(* is cut into steps at its accesses to CACHE and at the outbound call.    *)
(***************************************************************************)
EXTENDS Naturals, Sequences, FiniteSets, TLC

\* Number of requests handled during the life of the process.
NumRequests == 2

Requests == 1..NumRequests

\* src/translate.py:15
SUPPORTED_LANGS == {"vi", "en", "ru", "zh", "ko", "ja", "pt", "es"}

-----------------------------------------------------------------------------
(* Inputs.  An optional JSON field is << >> when absent and <<v>> when     *)
(* present with the string value v.                                        *)

QValues == {<< >>, <<"">>, <<"a">>, <<"a:b">>}
SourceValues == {<<"c">>, <<"b:c">>}
TargetValues == {<< >>, <<"xx">>}

\* What the request carries as its body:
\*   "none"      no JSON body (missing body or a non-JSON content type)
\*   "malformed" a JSON content type with a body that does not parse
\*   "falsy"     valid JSON, not an object, falsy in Python (null, 0, "", [])
\*   "truthy"    valid JSON, not an object, truthy in Python ([1], 5, "x")
\*   "object"    a JSON object with the optional fields q, source, target
NonObjectKinds == {"none", "malformed", "falsy", "truthy"}

\* A q that holds white space only.
BlankQ == <<" ">>

\* The JSON object {}.
EmptyObject == [kind |-> "object", q |-> << >>, source |-> << >>, target |-> << >>]

\* Objects that leave the target to its default, and objects that name one.
ObjectBodies ==
    [kind : {"object"}, q : QValues, source : SourceValues, target : {<< >>}]
    \cup [kind : {"object"}, q : {<< >>, <<"a">>}, source : {<<"c">>},
          target : TargetValues]
    \cup [kind : {"object"}, q : {BlankQ}, source : {<<"c">>}, target : {<< >>}]

Bodies ==
    [kind : NonObjectKinds, q : {<< >>}, source : {<< >>}, target : {<< >>}]
    \cup {EmptyObject}
    \cup ObjectBodies

\* What the provider does with the outbound GET:
\*   "badstatus"   a 4xx/5xx status: raise_for_status raises HTTPError, a
\*                 RequestException (as a failed connection does)
\*   "unparseable" a success status, the body is not JSON
\*   "nokeys"      a success status, responseData or translatedText is absent
\*   "ok"          a success status and responseData.translatedText = text
\* (A JSON answer that is not an object raises TypeError or AttributeError and
\* leaves through the same except clause as the ValueError of "unparseable".)
Translations == {"", "X"}

UpstreamResponses ==
    [kind : {"badstatus", "unparseable", "nokeys"}, text : {""}]
    \cup [kind : {"ok"}, text : Translations]

\* A request that has not arrived carries nothing.
NoBody == [kind |-> "none", q |-> << >>, source |-> << >>, target |-> << >>]

NoUpstream == [kind |-> "notcalled", text |-> ""]

-----------------------------------------------------------------------------
(* Responses: jsonify({field: value}), status.                             *)

Response(status, field, value) == [status |-> status, body |-> {<<field, value>>}]

NoResponse == [status |-> 0, body |-> {}]

\* An exception that leaves translate_text uncaught (no JSON body).
RawException == [status |-> 500, body |-> {}]

Success(text) == Response(200, "translatedText", text)

Error(status, message) == Response(status, "error", message)

InvalidPayload == Error(400, "Invalid JSON payload")

EmptyText == Error(400, "Text to translate is empty")

\* UnsupportedTarget with the rejected code left out of the message.
UnsupportedTargetUnnamed(target) == Error(400, "Target language is not supported")

UnsupportedTarget(target) ==
    Error(400, "Target language '" \o target \o "' is not supported")

UpstreamUnavailable == Error(500, "Failed to connect to the translation API")

UpstreamFormatError == Error(500, "Unexpected response format from translation API")

InternalError == Error(500, "An internal server error occurred")

\* ExceptHandler without its first clause: a RequestException reaches the catch-all.
ExceptHandlerNoRequestClause(exc) ==
    CASE exc = "KeyError" -> UpstreamFormatError
      [] OTHER -> InternalError

\* ExceptHandler without its last clause: an unclassified exception escapes.
ExceptHandlerNoCatchAll(exc) ==
    CASE exc = "RequestException" -> UpstreamUnavailable
      [] exc = "KeyError" -> UpstreamFormatError
      [] OTHER -> RawException

\* ExceptHandler whose catch-all puts the exception into the body.
ExceptHandlerLeaksDetail(exc) ==
    CASE exc = "RequestException" -> UpstreamUnavailable
      [] exc = "KeyError" -> UpstreamFormatError
      [] OTHER -> Error(500, exc)

\* The except clauses of translate_text, in order.
ExceptHandler(exc) ==
    CASE exc = "RequestException" -> UpstreamUnavailable
      [] exc = "KeyError" -> UpstreamFormatError
      [] OTHER -> InternalError

-----------------------------------------------------------------------------
(* Pure steps of the handler.  Each returns a record whose tag says how    *)
(* the step left: "raise" (exc), "return" (response) or "continue".        *)

Raise(exc) ==
    [tag |-> "raise", exc |-> exc, response |-> NoResponse,
     text |-> "", source |-> "", target |-> ""]

Return(resp) ==
    [tag |-> "return", exc |-> "", response |-> resp,
     text |-> "", source |-> "", target |-> ""]

Continue(text, source, target) ==
    [tag |-> "continue", exc |-> "", response |-> NoResponse,
     text |-> text, source |-> source, target |-> target]

\* dict.get(key, default)
DictGet(field, default) == IF field = << >> THEN default ELSE field[1]

\* Truthy that takes every string, the empty one too, as true.
TruthyAlways(s) == TRUE

\* Python truthiness of a string.
Truthy(s) == s # ""

\* Whether request.get_json() may raise on this body.  A body that does not
\* parse always raises (werkzeug BadRequest); with no JSON body at all the
\* installed Flask either returns None or raises (415 / 400).
GetJsonRaises(b) ==
    CASE b.kind = "malformed" -> {TRUE}
      [] b.kind = "none" -> {TRUE, FALSE}
      [] OTHER -> {FALSE}

\* `not data`: None, a falsy scalar, an empty list and the empty dict {}.
DataIsFalsy(b) ==
    \/ b.kind \in {"none", "falsy"}
    \/ b.kind = "object" /\ b.q = << >> /\ b.source = << >> /\ b.target = << >>

DefaultSource(allowList) == IF allowList THEN "vi" ELSE "auto"

\* get_json, the payload test, the three data.get calls and the validation.
Validator(allowList, b, raises) ==
    IF raises THEN Raise("HTTPException")
    ELSE IF DataIsFalsy(b) THEN Return(InvalidPayload)
    ELSE IF b.kind # "object" THEN Raise("AttributeError")
    ELSE LET text == DictGet(b.q, "")
             source == DictGet(b.source, DefaultSource(allowList))
             target == DictGet(b.target, "en")
         IN  IF ~Truthy(text) THEN Return(EmptyText)
             ELSE IF allowList /\ target \notin SUPPORTED_LANGS
                  THEN Return(UnsupportedTarget(target))
                  ELSE Continue(text, source, target)

\* cache_key = f"{text_to_translate}:{source_lang}:{target_lang}"
CacheKey(text, source, target) == text \o ":" \o source \o ":" \o target

\* response.json() on a body that is not JSON: requests >= 2.27 raises its own
\* JSONDecodeError (a RequestException); older versions raise a ValueError.
JsonErrors == {"RequestException", "ValueError"}

\* requests.get, raise_for_status, response.json() and the extraction of
\* responseData.translatedText: the indexing of src/translate.py raises on a
\* missing key, the .get chain of src/api/translate.py defaults to ''.
UpstreamClient(allowList, u, jsonErr) ==
    CASE u.kind = "badstatus" -> Raise("RequestException")
      [] u.kind = "unparseable" -> Raise(jsonErr)
      [] u.kind = "nokeys" ->
            IF allowList THEN Raise("KeyError") ELSE Continue("", "", "")
      [] OTHER -> Continue(u.text, "", "")

\* Fallback without the replacement of an empty translation.
FallbackNone(translated, text) == translated

\* if not translated_text: translated_text = text_to_translate
Fallback(translated, text) == IF ~Truthy(translated) THEN text ELSE translated

\* CacheLookup that never finds the key.
CacheLookupNever(cache, key) == FALSE

\* cache_key in CACHE
CacheLookup(cache, key) == key \in DOMAIN cache

\* CacheStore that keeps the entry a key already has (setdefault).
CacheStoreKeepFirst(cache, key, value) == cache @@ (key :> value)

\* CacheStore that rebinds CACHE to a dict holding the new entry only.
CacheStoreReplace(cache, key, value) == (key :> value)

\* CACHE[cache_key] = translated_text
CacheStore(cache, key, value) == (key :> value) @@ cache

-----------------------------------------------------------------------------
VARIABLES
    restricted,        \* TRUE: src/translate.py, FALSE: src/api/translate.py
    CACHE,             \* the module-level dict
    pc,                \* where each request's handler is
    data,              \* the body each request carries
    text_to_translate, source_lang, target_lang, cache_key,
    upstream,          \* what the provider answered to the request
    translated_text,
    exception,         \* the exception that left the try block, "" if none
    response,          \* what the handler returned
    upstream_calls,    \* outbound GETs issued by the request
    cache_writes       \* assignments to CACHE made by the request

locals == <<data, text_to_translate, source_lang, target_lang, cache_key>>

vars == <<restricted, CACHE, pc, data, text_to_translate, source_lang, target_lang,
          cache_key, upstream, translated_text, exception, response,
          upstream_calls, cache_writes>>

EmptyCache == [k \in {} |-> ""]

Init ==
    /\ restricted \in BOOLEAN
    /\ CACHE = EmptyCache
    /\ pc = [r \in Requests |-> "idle"]
    /\ data = [r \in Requests |-> NoBody]
    /\ text_to_translate = [r \in Requests |-> ""]
    /\ source_lang = [r \in Requests |-> ""]
    /\ target_lang = [r \in Requests |-> ""]
    /\ cache_key = [r \in Requests |-> ""]
    /\ upstream = [r \in Requests |-> NoUpstream]
    /\ translated_text = [r \in Requests |-> ""]
    /\ exception = [r \in Requests |-> ""]
    /\ response = [r \in Requests |-> NoResponse]
    /\ upstream_calls = [r \in Requests |-> 0]
    /\ cache_writes = [r \in Requests |-> 0]

\* The handler ends with the response resp.
Finish(r, resp) ==
    /\ response' = [response EXCEPT ![r] = resp]
    /\ pc' = [pc EXCEPT ![r] = "done"]

\* A request arrives (requests are numbered in their order of arrival) and
\* the handler runs up to the test `cache_key in CACHE`.
ReceiveRequest(r) ==
    /\ pc[r] = "idle"
    /\ IF r = 1 THEN TRUE ELSE pc[r - 1] # "idle"
    /\ \E b \in Bodies : \E raises \in GetJsonRaises(b) :
         LET v == Validator(restricted, b, raises)
             key == CacheKey(v.text, v.source, v.target)
         IN  /\ data' = [data EXCEPT ![r] = b]
             /\ IF v.tag = "continue"
                THEN /\ text_to_translate' = [text_to_translate EXCEPT ![r] = v.text]
                     /\ source_lang' = [source_lang EXCEPT ![r] = v.source]
                     /\ target_lang' = [target_lang EXCEPT ![r] = v.target]
                     /\ cache_key' = [cache_key EXCEPT ![r] = key]
                     /\ pc' = [pc EXCEPT ![r] =
                                  IF CacheLookup(CACHE, key) THEN "hit" ELSE "miss"]
                     /\ UNCHANGED <<exception, response>>
                ELSE /\ exception' = [exception EXCEPT ![r] = v.exc]
                     /\ Finish(r, IF v.tag = "raise" THEN ExceptHandler(v.exc)
                                                     ELSE v.response)
                     /\ UNCHANGED <<text_to_translate, source_lang, target_lang,
                                    cache_key>>
    /\ UNCHANGED <<restricted, CACHE, upstream, translated_text, upstream_calls,
                   cache_writes>>

\* return jsonify({"translatedText": CACHE[cache_key]})
ReturnCached(r) ==
    /\ pc[r] = "hit"
    /\ Finish(r, Success(CACHE[cache_key[r]]))
    /\ UNCHANGED <<restricted, CACHE, locals, upstream, translated_text,
                   exception, upstream_calls, cache_writes>>

\* CallUpstream that waits while another request for the same key is between
\* its own upstream call and its response (request coalescing).
CallUpstreamSingleFlight(r) ==
    /\ pc[r] = "miss"
    /\ \A o \in Requests \ {r} :
          cache_key[o] = cache_key[r] => pc[o] \notin {"store", "respond"}
    /\ \E u \in UpstreamResponses : \E jsonErr \in JsonErrors :
         LET c == UpstreamClient(restricted, u, jsonErr)
         IN  /\ upstream' = [upstream EXCEPT ![r] = u]
             /\ IF c.tag = "continue"
                THEN /\ translated_text' = [translated_text EXCEPT ![r] =
                                               Fallback(c.text, text_to_translate[r])]
                     /\ pc' = [pc EXCEPT ![r] = "store"]
                     /\ UNCHANGED <<exception, response>>
                ELSE /\ exception' = [exception EXCEPT ![r] = c.exc]
                     /\ Finish(r, ExceptHandler(c.exc))
                     /\ UNCHANGED translated_text
    /\ upstream_calls' = [upstream_calls EXCEPT ![r] = @ + 1]
    /\ UNCHANGED <<restricted, CACHE, locals, cache_writes>>

\* The outbound GET, the parsing of its answer and the fallback.
CallUpstream(r) ==
    /\ pc[r] = "miss"
    /\ \E u \in UpstreamResponses : \E jsonErr \in JsonErrors :
         LET c == UpstreamClient(restricted, u, jsonErr)
         IN  /\ upstream' = [upstream EXCEPT ![r] = u]
             /\ IF c.tag = "continue"
                THEN /\ translated_text' = [translated_text EXCEPT ![r] =
                                               Fallback(c.text, text_to_translate[r])]
                     /\ pc' = [pc EXCEPT ![r] = "store"]
                     /\ UNCHANGED <<exception, response>>
                ELSE /\ exception' = [exception EXCEPT ![r] = c.exc]
                     /\ Finish(r, ExceptHandler(c.exc))
                     /\ UNCHANGED translated_text
    /\ upstream_calls' = [upstream_calls EXCEPT ![r] = @ + 1]
    /\ UNCHANGED <<restricted, CACHE, locals, cache_writes>>

\* StoreResult that goes on to the return without the assignment.
StoreResultNoWrite(r) ==
    /\ pc[r] = "store"
    /\ pc' = [pc EXCEPT ![r] = "respond"]
    /\ UNCHANGED <<restricted, CACHE, locals, upstream, translated_text,
                   exception, response, upstream_calls, cache_writes>>

\* CACHE[cache_key] = translated_text
StoreResult(r) ==
    /\ pc[r] = "store"
    /\ CACHE' = CacheStore(CACHE, cache_key[r], translated_text[r])
    /\ cache_writes' = [cache_writes EXCEPT ![r] = @ + 1]
    /\ pc' = [pc EXCEPT ![r] = "respond"]
    /\ UNCHANGED <<restricted, locals, upstream, translated_text, exception,
                   response, upstream_calls>>

\* return jsonify({"translatedText": translated_text})
ReturnTranslated(r) ==
    /\ pc[r] = "respond"
    /\ Finish(r, Success(translated_text[r]))
    /\ UNCHANGED <<restricted, CACHE, locals, upstream, translated_text,
                   exception, upstream_calls, cache_writes>>

Next ==
    \E r \in Requests :
        \/ ReceiveRequest(r)
        \/ ReturnCached(r)
        \/ CallUpstream(r)
        \/ StoreResult(r)
        \/ ReturnTranslated(r)

Spec == Init /\ [][Next]_vars

-----------------------------------------------------------------------------
(* Properties.                                                             *)

Arrived(r) == pc[r] # "idle"

Done(r) == pc[r] = "done"

Triple(r) == <<text_to_translate[r], source_lang[r], target_lang[r]>>

\* The request passed validation (a cache key always holds its two colons).
Validated(r) == cache_key[r] # ""

\* The request passed validation and was answered without an outbound call.
ServedFromCache(r) == Done(r) /\ Validated(r) /\ upstream[r] = NoUpstream

\* The request wrote the result of its own successful upstream call.
Wrote(r) == cache_writes[r] = 1

\* C1: a validated request that finds its key in the cache is answered 200 with
\* the translatedText of a call made for the same (text, source, target), and
\* makes no upstream call.
C1_HitReturnsOriginal ==
    \A r \in Requests :
        ServedFromCache(r) =>
            /\ upstream_calls[r] = 0
            /\ \E o \in Requests \ {r} :
                  /\ Triple(o) = Triple(r)
                  /\ Wrote(o)
                  /\ response[r] = Success(translated_text[o])

\* C2: when the provider answers with success and an empty translated text, the
\* request stores its own text under its key and answers 200 with that text.
C2_EmptyTranslationFallsBack ==
    /\ [](\A r \in Requests :
            (upstream[r].kind = "ok" /\ upstream[r].text = "") =>
                /\ pc[r] \in {"store", "respond", "done"}
                /\ translated_text[r] = text_to_translate[r]
                /\ Done(r) => /\ response[r].status = 200
                              /\ response[r].body =
                                    {<<"translatedText", text_to_translate[r]>>}
                              /\ Wrote(r))
    /\ [][\A r \in Requests :
            (upstream[r].kind = "ok" /\ upstream[r].text = "" /\ pc[r] = "store"
                /\ pc'[r] # "store") =>
                /\ cache_key[r] \in DOMAIN CACHE'
                /\ CACHE'[cache_key[r]] = text_to_translate[r]]_vars

C2_Witness ==
    \E r \in Requests :
        /\ Done(r)
        /\ upstream[r].kind = "ok" /\ upstream[r].text = ""
        /\ response[r] = Success(text_to_translate[r])
        /\ CACHE[cache_key[r]] = text_to_translate[r]

\* C3: when the provider answers with a non-success status, the request ends
\* with status 500 or 502 and the error "Failed to connect to the translation
\* API", and it never changes the cache.
C3_BadStatusUnavailable ==
    /\ [](\A r \in Requests :
            upstream[r].kind = "badstatus" =>
                /\ Done(r)
                /\ response[r].status \in {500, 502}
                /\ response[r].body =
                      {<<"error", "Failed to connect to the translation API">>}
                /\ cache_writes[r] = 0)
    /\ [][\A r \in Requests :
            (upstream'[r].kind = "badstatus" /\ pc[r] # pc'[r]) =>
                CACHE' = CACHE]_vars

C3_Witness ==
    \E r \in Requests :
        /\ Done(r)
        /\ upstream[r].kind = "badstatus"
        /\ response[r].status = 500
        /\ cache_key[r] \notin DOMAIN CACHE

\* C4: a request whose body is an object with q absent or empty (the empty
\* object included) is answered 400 "Text to translate is empty" and makes no
\* upstream call.
C4_EmptyTextRejected ==
    \A r \in Requests :
        (Arrived(r) /\ data[r].kind = "object" /\ data[r].q \in {<< >>, <<"">>}) =>
            /\ Done(r)
            /\ response[r].status = 400
            /\ response[r].body = {<<"error", "Text to translate is empty">>}
            /\ upstream_calls[r] = 0

\* C5: a request whose body is absent, unparseable or not an object is answered
\* 400 "Invalid JSON payload" and makes no upstream call.
C5_InvalidPayloadRejected ==
    \A r \in Requests :
        (Arrived(r) /\ data[r].kind \in NonObjectKinds) =>
            /\ Done(r)
            /\ response[r].status = 400
            /\ response[r].body = {<<"error", "Invalid JSON payload">>}
            /\ upstream_calls[r] = 0

\* C6: with the allow-list, a request with non-empty text and a target outside
\* the list is answered 400 with a message naming the target, makes no upstream
\* call and writes nothing to the cache; without the allow-list no request with
\* non-empty text is rejected by validation.
C6_TargetValidation ==
    \A r \in Requests :
        (Arrived(r) /\ data[r].kind = "object" /\ data[r].q \notin {<< >>, <<"">>}) =>
            /\ (restricted /\ data[r].target # << >>
                    /\ data[r].target[1] \notin SUPPORTED_LANGS) =>
                  /\ Done(r)
                  /\ response[r].status = 400
                  /\ response[r].body =
                        {<<"error", "Target language '" \o data[r].target[1]
                                        \o "' is not supported">>}
                  /\ upstream_calls[r] = 0
                  /\ cache_writes[r] = 0
                  /\ ~Validated(r)
            /\ ~restricted =>
                  /\ response[r].status # 400
                  /\ Validated(r)
                  /\ target_lang[r] = IF data[r].target = << >> THEN "en"
                                      ELSE data[r].target[1]

C6_Witness ==
    \E r \in Requests :
        /\ restricted
        /\ Done(r)
        /\ data[r].q = <<"a">> /\ data[r].target = <<"xx">>
        /\ response[r].status = 400

\* C7: two validated requests with distinct (text, source, target) never have
\* the same cache key.
C7_KeyInjective ==
    \A r1, r2 \in Requests :
        (Validated(r1) /\ Validated(r2) /\ cache_key[r1] = cache_key[r2]) =>
            Triple(r1) = Triple(r2)

\* C8: a request that has ended has exactly one response, holding exactly one
\* of translatedText (status 200) and error (status 400, 500 or 502); a request
\* that has not ended has none.
C8_WellFormedResponse ==
    \A r \in Requests :
        /\ ~Done(r) => response[r] = NoResponse
        /\ Done(r) =>
              /\ Cardinality(response[r].body) = 1
              /\ \E f \in response[r].body :
                    \/ f[1] = "translatedText" /\ response[r].status = 200
                    \/ f[1] = "error" /\ response[r].status \in {400, 500, 502}

C8_Witness ==
    \E r1, r2 \in Requests :
        /\ Done(r1) /\ response[r1] = InternalError
        /\ Done(r2) /\ response[r2].status = 200

\* C9: when the provider answers with success but responseData or
\* translatedText is absent, the request ends with status 500 and the error
\* "Unexpected response format from translation API" and writes nothing.
C9_MissingKeysFormatError ==
    \A r \in Requests :
        upstream[r].kind = "nokeys" =>
            /\ Done(r)
            /\ response[r].status = 500
            /\ response[r].body =
                  {<<"error", "Unexpected response format from translation API">>}
            /\ cache_writes[r] = 0

\* C10: the cache is empty at the start and no step removes a key from it.
C10_CacheGrows ==
    /\ CACHE = EmptyCache
    /\ [][DOMAIN CACHE \subseteq DOMAIN CACHE']_vars

C10_Witness ==
    \E r1, r2 \in Requests :
        /\ Wrote(r1) /\ Wrote(r2)
        /\ cache_key[r1] # cache_key[r2]
        /\ {cache_key[r1], cache_key[r2]} \subseteq DOMAIN CACHE

\* The provider answered with a success status and a body the extraction of
\* translatedText accepted.
UpstreamSucceeded(r) == upstream[r].kind \in {"ok", "nokeys"}

\* The provider's text, or the request text when the provider's is empty.
Normalized(r) ==
    IF upstream[r].text # "" THEN upstream[r].text ELSE text_to_translate[r]

\* C11: every cache entry holds the normalized result (the provider's text, or
\* the request text under the fallback) of a successful upstream call made by a
\* request with that cache key, and a write to a key that already has an entry
\* leaves the key holding the value of that later write.
C11_CacheNeverCorrupted ==
    /\ [](\A k \in DOMAIN CACHE :
            \E r \in Requests :
                /\ cache_key[r] = k
                /\ Wrote(r)
                /\ UpstreamSucceeded(r)
                /\ CACHE[k] = Normalized(r))
    /\ [][\A r \in Requests :
            cache_writes'[r] # cache_writes[r] =>
                /\ cache_key[r] \in DOMAIN CACHE'
                /\ CACHE'[cache_key[r]] = Normalized(r)]_vars

C11_Witness ==
    \E r1, r2 \in Requests :
        /\ Done(r1) /\ Done(r2)
        /\ Wrote(r1) /\ Wrote(r2)
        /\ Triple(r1) = Triple(r2)
        /\ response[r1] # response[r2]
        /\ CACHE[cache_key[r1]] = translated_text[r2]

\* C12: nothing coalesces requests: a request whose lookup missed can always
\* make its upstream call and, after a successful call, its write, whatever
\* other requests for the same key are doing; two requests for one uncached
\* key can both miss, both call the provider and both write.
C12_NoSingleFlight ==
    \A r \in Requests :
        /\ pc[r] = "miss" => ENABLED CallUpstream(r)
        /\ pc[r] = "store" => ENABLED StoreResult(r)

C12_Witness ==
    \E r1, r2 \in Requests :
        /\ r1 # r2
        /\ Triple(r1) = Triple(r2)
        /\ upstream_calls[r1] = 1 /\ upstream_calls[r2] = 1
        /\ Wrote(r1) /\ Wrote(r2)

\* The body passes the validation of the variant at hand.
ValidBody(b) ==
    /\ b.kind = "object"
    /\ b.q \notin {<< >>, <<"">>}
    /\ restricted => (b.target = << >> \/ b.target[1] \in SUPPORTED_LANGS)

\* C13: a request calls the provider at most once, only from a lookup that
\* missed and after validation; a request that failed validation or hit the
\* cache never calls it, and a failed call is not repeated.
C13_UpstreamAtMostOnce ==
    /\ [](\A r \in Requests :
            /\ upstream_calls[r] \in {0, 1}
            /\ (Arrived(r) /\ ~ValidBody(data[r])) => upstream_calls[r] = 0
            /\ pc[r] \in {"hit", "miss"} => upstream_calls[r] = 0
            /\ ServedFromCache(r) => upstream_calls[r] = 0
            /\ upstream[r].kind \in {"badstatus", "unparseable"} =>
                  Done(r) /\ upstream_calls[r] = 1)
    /\ [][\A r \in Requests :
            /\ upstream_calls'[r] # upstream_calls[r] =>
                  pc[r] = "miss" /\ Validated(r)
            /\ (pc[r] # "miss" /\ pc'[r] = "miss") =>
                  cache_key'[r] \notin DOMAIN CACHE]_vars

C13_Witness ==
    \E r1, r2 \in Requests :
        /\ Done(r1) /\ Wrote(r1) /\ upstream_calls[r1] = 1
        /\ ServedFromCache(r2) /\ upstream_calls[r2] = 0
        /\ cache_key[r1] = cache_key[r2]

\* C14 as claimed: a request answered 200 after its own upstream call has
\* written its key exactly once before the response, and when the response is
\* returned the entry under its key equals the translatedText of the response.
C14_EntryEqualsResponse ==
    [][\A r \in Requests :
        (pc[r] = "respond" /\ pc'[r] = "done") =>
            /\ cache_writes[r] = 1
            /\ response'[r].status = 200
            /\ response'[r].body = {<<"translatedText", CACHE[cache_key[r]]>>}]_vars

\* C14, amended: the request writes its key exactly once, before its response,
\* with the translatedText of that response; when the response is returned the
\* entry holds that text or the text another request with the same cache key
\* has written.
C14_WriteOnceBeforeResponse ==
    /\ [](\A r \in Requests :
            /\ pc[r] \in {"miss", "store"} => cache_writes[r] = 0
            /\ pc[r] = "respond" => cache_writes[r] = 1 /\ response[r] = NoResponse
            /\ (Done(r) /\ response[r].status = 200 /\ upstream_calls[r] = 1) =>
                  /\ cache_writes[r] = 1
                  /\ response[r] = Success(translated_text[r]))
    /\ [][\A r \in Requests :
            /\ cache_writes'[r] # cache_writes[r] =>
                  /\ response[r] = NoResponse
                  /\ CACHE'[cache_key[r]] = translated_text[r]
            /\ (pc[r] = "respond" /\ pc'[r] = "done") =>
                  /\ response'[r] = Success(translated_text[r])
                  /\ cache_key[r] \in DOMAIN CACHE
                  /\ \E o \in Requests :
                        /\ cache_key[o] = cache_key[r]
                        /\ Wrote(o)
                        /\ CACHE[cache_key[r]] = translated_text[o]]_vars

C14_Witness ==
    \E r, o \in Requests :
        /\ Done(r) /\ Wrote(r) /\ response[r] = Success(translated_text[r])
        /\ Wrote(o) /\ cache_key[o] = cache_key[r]
        /\ CACHE[cache_key[r]] = translated_text[o]
        /\ translated_text[o] # translated_text[r]

\* C15: the cache changes only in the write of a request whose upstream call
\* succeeded, and only at that request's key; a request that ends with an error
\* or is served from the cache never writes, and a writer is answered 200.
C15_CacheFrame ==
    /\ [](\A r \in Requests :
            /\ (Done(r) /\ response[r].status # 200) => cache_writes[r] = 0
            /\ (pc[r] = "hit" \/ ServedFromCache(r)) => cache_writes[r] = 0
            /\ Wrote(r) => /\ UpstreamSucceeded(r)
                           /\ Done(r) => response[r].status = 200)
    /\ [][CACHE' # CACHE =>
            \E r \in Requests :
                /\ pc[r] = "store"
                /\ cache_writes'[r] = cache_writes[r] + 1
                /\ UpstreamSucceeded(r)
                /\ DOMAIN CACHE' = DOMAIN CACHE \cup {cache_key[r]}
                /\ \A k \in DOMAIN CACHE \ {cache_key[r]} : CACHE'[k] = CACHE[k]]_vars
    /\ [][\A r \in Requests :
            (pc[r] # "done" /\ pc'[r] = "done") => CACHE' = CACHE]_vars

C15_Witness ==
    \E r1, r2 \in Requests :
        /\ Done(r1) /\ Wrote(r1)
        /\ Done(r2) /\ response[r2].status = 500 /\ Validated(r2)
        /\ DOMAIN CACHE = {cache_key[r1]}
        /\ cache_key[r2] # cache_key[r1]

\* C16: a request whose q is white space only is answered 400 "Text to
\* translate is empty", makes no upstream call and writes no cache entry.
C16_BlankTextRejected ==
    \A r \in Requests :
        (Arrived(r) /\ data[r].kind = "object" /\ data[r].q = BlankQ) =>
            /\ Done(r)
            /\ response[r].status = 400
            /\ response[r].body = {<<"error", "Text to translate is empty">>}
            /\ upstream_calls[r] = 0
            /\ cache_writes[r] = 0

\* C17: when the provider answers with a success status and a body that does
\* not parse, the request ends with status 500 and the error "Unexpected
\* response format from translation API".
C17_UnparseableFormatError ==
    \A r \in Requests :
        upstream[r].kind = "unparseable" =>
            /\ Done(r)
            /\ response[r].status = 500
            /\ response[r].body =
                  {<<"error", "Unexpected response format from translation API">>}

\* The error messages the handler holds as literals.
FixedMessages ==
    {"Invalid JSON payload", "Text to translate is empty",
     "Failed to connect to the translation API",
     "Unexpected response format from translation API",
     "An internal server error occurred"}

\* C18: an exception that is neither a RequestException nor a KeyError ends the
\* request with status 500 and "An internal server error occurred"; every error
\* body is one of the fixed messages or the unsupported-target message with the
\* request's target in it, never the exception.
C18_UnclassifiedIsInternal ==
    \A r \in Requests :
        /\ exception[r] \notin {"", "RequestException", "KeyError"} =>
              /\ Done(r)
              /\ response[r].status = 500
              /\ response[r].body = {<<"error", "An internal server error occurred">>}
        /\ (Done(r) /\ response[r].status # 200) =>
              \A f \in response[r].body :
                  /\ f[1] = "error"
                  /\ \/ f[2] \in FixedMessages
                     \/ /\ restricted
                        /\ data[r].target # << >>
                        /\ f[2] = "Target language '" \o data[r].target[1]
                                     \o "' is not supported"

C18_Witness ==
    \E r1, r2 \in Requests :
        /\ Done(r1) /\ exception[r1] = "ValueError"
        /\ Done(r2) /\ exception[r2] = "AttributeError"
        /\ response[r1] = response[r2]

\* C19: no cache entry is the empty string, and no 200 response carries an
\* empty translatedText.
C19_NoEmptyValue ==
    /\ \A k \in DOMAIN CACHE : CACHE[k] # ""
    /\ \A r \in Requests :
          /\ pc[r] \in {"store", "respond"} => translated_text[r] # ""
          /\ (Done(r) /\ response[r].status = 200) =>
                \A f \in response[r].body : f[2] # ""

C19_Witness ==
    \E r1, r2 \in Requests :
        /\ Wrote(r1) /\ upstream[r1].kind = "ok" /\ upstream[r1].text = ""
        /\ ServedFromCache(r2) /\ cache_key[r2] = cache_key[r1]
        /\ response[r2] = Success(text_to_translate[r1])

\* The requests between a missed lookup for the key k and their write to it.
InFlight(k) == {r \in Requests : cache_key[r] = k /\ pc[r] \in {"miss", "store"}}

\* C20: a lookup for a key that has an entry hits, and the request then makes
\* no upstream call and no write; so once a key has an entry no further request
\* comes to be in flight for it, only a request in flight for it changes the
\* entry, and with none in flight the entry stays as it is.
C20_LookupAfterWriteHits ==
    /\ [](\A r \in Requests :
            (pc[r] = "hit" \/ ServedFromCache(r)) =>
                upstream_calls[r] = 0 /\ cache_writes[r] = 0)
    /\ [][\A r \in Requests :
            (pc[r] = "idle" /\ cache_key'[r] \in DOMAIN CACHE) => pc'[r] = "hit"]_vars
    /\ [][\A k \in DOMAIN CACHE :
            /\ k \in DOMAIN CACHE'
            /\ InFlight(k)' \subseteq InFlight(k)
            /\ CACHE'[k] # CACHE[k] =>
                  \E r \in InFlight(k) : cache_writes'[r] = cache_writes[r] + 1]_vars

C20_Witness ==
    \E r1, r2 \in Requests :
        /\ Done(r1) /\ Wrote(r1)
        /\ ServedFromCache(r2) /\ cache_writes[r2] = 0
        /\ cache_key[r2] = cache_key[r1]
        /\ InFlight(cache_key[r1]) = {}
        /\ response[r2] = Success(CACHE[cache_key[r1]])

====
